---- MODULE Spec2Model ----
(***************************************************************************)
(* Model of parse_single_file (src/trial.py): extraction of failure        *)
(* records from one cucumber HTML report.                                  *)
(*                                                                         *)
(* A report is a sequence of text nodes.  A text is a sequence of tokens;  *)
(* the regular expressions of the program are modelled by what they find   *)
(* in a text: the first token of the shape they recognise, and the groups  *)
(* they capture from it.  Loop indices are zero-based as in the program;   *)
(* a sequence s is read at s[j + 1].                                       *)
(***************************************************************************)
EXTENDS Integers, Sequences, FiniteSets, TLC

VARIABLES doc, pc, i, cucumber_urls, results, reported_testcases,
          unique_failures, failures_without_testcase, ret

vars == <<doc, pc, i, cucumber_urls, results, reported_testcases,
          unique_failures, failures_without_testcase, ret>>

\* Bounds of the reports explored.
MaxNodes == 3
MaxPad == 15

\* Python's None, where the program holds None or a string.
None == "None"

Min(S) == CHOOSE x \in S : \A y \in S : x <= y
Max(S) == CHOOSE x \in S : \A y \in S : y <= x

RECURSIVE Concat(_)
Concat(ss) == IF ss = <<>> THEN <<>> ELSE Head(ss) \o Concat(Tail(ss))

(***************************************************************************)
(* Tokens.  k is the shape of the token:                                   *)
(*   "word"  plain text                                                    *)
(*   "id"    pre-num            e.g. TC-1                                  *)
(*   "feat"  pre-num.feature    e.g. AB-2.feature                          *)
(*   "sigA"  status code was: n1, expected: n2, response time in           *)
(*           milliseconds: 1, url: url, response:                          *)
(*   "sigB"  Expected : n1; But it was :n2                                 *)
(*   "url"   url                                                           *)
(***************************************************************************)
Tok(k, pre, num, n1, n2, url) ==
    [k |-> k, pre |-> pre, num |-> num, n1 |-> n1, n2 |-> n2, url |-> url]

Word == Tok("word", "", "", "", "", "")
IdTok(pre, num) == Tok("id", pre, num, "", "", "")
FeatTok(pre, num) == Tok("feat", pre, num, "", "", "")
SigA(n1, n2, url) == Tok("sigA", "", "", n1, n2, url)
SigB(n1, n2) == Tok("sigB", "", "", n1, n2, "")
UrlTok(url) == Tok("url", "", "", "", "", url)

\* A pattern's search of a text: <<>> when nothing matches (a None match
\* object), else <<t>> for the first token t of one of the shapes the
\* pattern recognises, with at least minpre letters in front of the hyphen.
Search(text, shapes, minpre) ==
    LET hits == {n \in 1..Len(text) : text[n].k \in shapes /\ Len(text[n].pre) >= minpre}
    IN IF hits = {} THEN <<>> ELSE <<text[Min(hits)]>>

\* ([A-Z]+-[A-Z]*\d+)\.feature
FEATURE_LINE_PATTERN(text) == Search(text, {"feat"}, 1)

\* \b([A-Z]+-[A-Z]*\d+)\b : also found in front of ".feature"
TEST_CASE_PATTERN(text) == Search(text, {"id", "feat"}, 1)

\* \b([A-Z]{2,}-[A-Z]*\d+)\b
ADDITIONAL_PATTERN(text) == Search(text, {"id", "feat"}, 2)

\* (https?://[^\s"']+) : the url of a sigA token is followed by a comma,
\* which this pattern takes with it.
CUCUMBER_URL_PATTERN(text) == Search(text, {"url", "sigA"}, 0)

\* status code was: (\d+), expected: (\d+), response time in
\* milliseconds: (\d+), url: (\S+), response:
FAILURE_LINE_PATTERN(text) == Search(text, {"sigA"}, 0)

\* Expected : (\d+); But it was :(\d+)
ALT_FAILURE_PATTERN(text) == Search(text, {"sigB"}, 0)

\* group(1) of an identifier pattern's match m = <<t>>
IdGroup(m) == m[1].pre \o "-" \o m[1].num

\* group(1) of CUCUMBER_URL_PATTERN's match
UrlGroup(m) == IF m[1].k = "sigA" THEN m[1].url \o "," ELSE m[1].url

(***************************************************************************)
(* The report (BeautifulSoup's view of it).  A node is a text node: blk is *)
(* the div.element it lies in (0: none), out whether it lies in a          *)
(* div.output of that element, txt its lines.                              *)
(***************************************************************************)
NumElements(d) == Max({0} \cup {d[n].blk : n \in 1..Len(d)})

NodesOf(d, e) == SelectSeq(d, LAMBDA nd : nd.blk = e)

NodeLines(nodes) == Concat([n \in 1..Len(nodes) |-> nodes[n].txt])

\* soup.get_text(separator="\n", strip=True).splitlines()
AllLines(d) == NodeLines(d)

\* element.get_text(" ", strip=True)
ElementText(d, e) == Concat(NodeLines(NodesOf(d, e)))

\* element.get_text("\n", strip=True).splitlines()
ElementLines(d, e) == NodeLines(NodesOf(d, e))

\* [o.get_text(" ", strip=True) for o in element.find_all("div", class_="output")]
OutputTexts(d, e) ==
    LET outs == SelectSeq(NodesOf(d, e), LAMBDA nd : nd.out)
    IN [n \in 1..Len(outs) |-> Concat(outs[n].txt)]

\* line.strip() is non-empty
NonBlank(line) == line # <<>>


\* A dict: a function on its keys.  {} is the function with no key.
EmptyDict == <<>>

DictSet(dct, key, v) ==
    [x \in (DOMAIN dct) \cup {key} |-> IF x = key THEN v ELSE dct[x]]

(***************************************************************************)
(* STEP 1: testcase -> URL mapping                                         *)
(***************************************************************************)
\* FEATURE_LINE_PATTERN.search(t) or TEST_CASE_PATTERN.search(t)
\*   or ADDITIONAL_PATTERN.search(t); case_id = match.group(1) if match
CaseId(text) ==
    LET match == IF FEATURE_LINE_PATTERN(text) # <<>> THEN FEATURE_LINE_PATTERN(text)
                 ELSE IF TEST_CASE_PATTERN(text) # <<>> THEN TEST_CASE_PATTERN(text)
                 ELSE ADDITIONAL_PATTERN(text)
    IN IF match # <<>> THEN IdGroup(match) ELSE None

\* the url of the first div.output in which CUCUMBER_URL_PATTERN matches
ElementUrl(outputs) ==
    LET hits == {n \in 1..Len(outputs) : CUCUMBER_URL_PATTERN(outputs[n]) # <<>>}
    IN IF hits = {} THEN None
       ELSE UrlGroup(CUCUMBER_URL_PATTERN(outputs[Min(hits)]))

\* faulty variant: the index keeps the first URL stored for an identifier
StoreUrlIfAbsent(urls, case_id, url) ==
    IF case_id # None /\ url # None /\ case_id \notin DOMAIN urls
    THEN DictSet(urls, case_id, url) ELSE urls

\* if case_id and url: cucumber_urls[case_id] = url
StoreUrl(urls, case_id, url) ==
    IF case_id # None /\ url # None THEN DictSet(urls, case_id, url) ELSE urls

(***************************************************************************)
(* STEP 2: failures from the lines of the whole text                       *)
(***************************************************************************)
\* The failure signal of a line: <<>> when neither pattern matches.
Signal(line) ==
    LET match == FAILURE_LINE_PATTERN(line)
        alt_match == ALT_FAILURE_PATTERN(line)
    IN IF match # <<>>
         THEN <<[status_code |-> match[1].n1, expected_code |-> match[1].n2,
                 url |-> match[1].url]>>
       ELSE IF alt_match # <<>>
         THEN <<[status_code |-> alt_match[1].n2, expected_code |-> alt_match[1].n1,
                 url |-> "URL Not Found"]>>
       ELSE <<>>

\* faulty variant: the window reaches one line further: range(.., i + 16)
WindowWide(n, len) ==
    (IF n - 5 > 0 THEN n - 5 ELSE 0) .. ((IF len < n + 16 THEN len ELSE n + 16) - 1)

\* range(max(0, i - 5), min(len(lines), i + 15))
Window(n, len) ==
    (IF n - 5 > 0 THEN n - 5 ELSE 0) .. ((IF len < n + 15 THEN len ELSE n + 15) - 1)

\* the identifier one line gives: feature form, then generic, then strict
LineId(line) ==
    IF FEATURE_LINE_PATTERN(line) # <<>> THEN IdGroup(FEATURE_LINE_PATTERN(line))
    ELSE IF TEST_CASE_PATTERN(line) # <<>> THEN IdGroup(TEST_CASE_PATTERN(line))
    ELSE IF ADDITIONAL_PATTERN(line) # <<>> THEN IdGroup(ADDITIONAL_PATTERN(line))
    ELSE None

\* the identifier of the first line of the window that gives one
NearestTestcase(lines, n) ==
    LET hits == {j \in Window(n, Len(lines)) : LineId(lines[j + 1]) # None}
    IN IF hits = {} THEN None ELSE LineId(lines[Min(hits) + 1])

\* f"HTTP {status_code} (expected {expected_code})"
FailureType(status_code, expected_code) ==
    "HTTP " \o status_code \o " (expected " \o expected_code \o ")"

\* faulty variant: the inline URL of the failure line is kept
KeepInlineUrl(test_case_id, url, urls) == url

\* if test_case_id and test_case_id in cucumber_urls: url = cucumber_urls[...]
OverrideUrl(test_case_id, url, urls) ==
    IF test_case_id # None /\ test_case_id \in DOMAIN urls
    THEN urls[test_case_id] ELSE url

\* "\n".join(ls), the line break being a token of its own
NewLine == Tok("nl", "", "", "", "", "")

RECURSIVE Join(_)
Join(ls) ==
    IF ls = <<>> THEN <<>>
    ELSE IF Len(ls) = 1 THEN ls[1]
    ELSE ls[1] \o <<NewLine>> \o Join(Tail(ls))

\* the non-blank lines among lines[i : i + 8]
ContextLines(lines, n) ==
    LET hi == IF Len(lines) < n + 8 THEN Len(lines) ELSE n + 8
    IN SelectSeq(SubSeq(lines, n + 1, hi), NonBlank)

\* test_case_id or ""
OrEmpty(id) == IF id = None THEN "" ELSE id

\* the record appended for the signal sig of line n
ScanRecord(lines, n, sig, urls) ==
    LET test_case_id == NearestTestcase(lines, n)
    IN [status_info |-> FailureType(sig.status_code, sig.expected_code),
        testcase |-> OrEmpty(test_case_id),
        url |-> OverrideUrl(test_case_id, sig.url, urls),
        error_analysis |-> Join(ContextLines(lines, n))]

(***************************************************************************)
(* STEP 3: failures without status codes                                   *)
(***************************************************************************)
\* faulty variant: the reported set starts empty
ReportedNothing(rs) == {}

\* {f["testcase"] for f in results if f["testcase"]}
ReportedTestcases(rs) ==
    {rs[n].testcase : n \in {m \in 1..Len(rs) : rs[m].testcase # ""}}

\* faulty variant: the lookup always falls back to its default
DictGetDefault(dct, key, default) == default

\* cucumber_urls.get(case_id, "URL Not Found")
DictGet(dct, key, default) == IF key \in DOMAIN dct THEN dct[key] ELSE default

\* context_lines[:12]
FirstLines(ls) == SubSeq(ls, 1, IF Len(ls) < 12 THEN Len(ls) ELSE 12)

OrphanRecord(d, e, case_id, urls) ==
    [status_info |-> "no status code",
     testcase |-> case_id,
     url |-> DictGet(urls, case_id, "URL Not Found"),
     error_analysis |-> Join(FirstLines(ElementLines(d, e)))]

(***************************************************************************)
(* STEP 4: deduplicate                                                     *)
(* unique_failures is a dict in insertion order: a sequence of entries.    *)
(***************************************************************************)
\* f"{testcase}_{status_info}"
UniqueKey(failure) == failure.testcase \o "_" \o failure.status_info

HasKey(uf, key) == \E n \in 1..Len(uf) : uf[n].key = key

\* faulty variant: every record is kept, as in a list
InsertAlways(uf, failure) ==
    Append(uf, [key |-> UniqueKey(failure), value |-> failure])

\* faulty variant: unique_failures[unique_key] = failure, whether the key is new or not
InsertOverwrite(uf, failure) ==
    IF HasKey(uf, UniqueKey(failure))
    THEN [n \in 1..Len(uf) |->
            IF uf[n].key = UniqueKey(failure)
            THEN [key |-> uf[n].key, value |-> failure] ELSE uf[n]]
    ELSE Append(uf, [key |-> UniqueKey(failure), value |-> failure])

\* faulty variant: a new key is inserted in front
InsertAtFront(uf, failure) ==
    IF HasKey(uf, UniqueKey(failure)) THEN uf
    ELSE <<[key |-> UniqueKey(failure), value |-> failure]>> \o uf

\* if unique_key not in unique_failures: unique_failures[unique_key] = failure
InsertUnique(uf, failure) ==
    IF HasKey(uf, UniqueKey(failure)) THEN uf
    ELSE Append(uf, [key |-> UniqueKey(failure), value |-> failure])

\* the loop over results: <<unique_failures, failures_without_testcase>>
RECURSIVE DedupLoop(_, _, _)
DedupLoop(rs, uf, fw) ==
    IF rs = <<>> THEN <<uf, fw>>
    ELSE IF Head(rs).testcase # ""
      THEN DedupLoop(Tail(rs), InsertUnique(uf, Head(rs)), fw)
      ELSE DedupLoop(Tail(rs), uf, Append(fw, Head(rs)))

\* list(unique_failures.values())
Values(uf) == [n \in 1..Len(uf) |-> uf[n].value]

\* unique_results, from the results and the two collections of the loop
UniqueResults(uf, fw) == Values(uf)

\* faulty variant: each status_info present is counted once
StatusPresence(rs) == [s \in {rs[n].status_info : n \in 1..Len(rs)} |-> 1]

\* dict(Counter(f["status_info"] for f in unique_results))
StatusCounts(rs) ==
    [s \in {rs[n].status_info : n \in 1..Len(rs)} |->
        Cardinality({n \in 1..Len(rs) : rs[n].status_info = s})]

\* the value parse_single_file returns
Result(unique_results) ==
    [total_unique |-> Len(unique_results),
     status_summary |-> StatusCounts(unique_results),
     failures |-> unique_results]

\* STEP 4 as a function of the working records
Deduplicator(rs) ==
    LET step == DedupLoop(rs, <<>>, <<>>) IN UniqueResults(step[1], step[2])


(***************************************************************************)
(* The reports explored.                                                   *)
(***************************************************************************)
\* The texts a node may hold, as lines of tokens.
NodeTexts ==
    { <<<<IdTok("T", "3"), FeatTok("AB", "2")>>>>,
      <<<<SigA("404", "200", "http://x/y")>>>>,
      <<<<SigB("200", "404")>>, <<>>, <<SigB("200", "404")>>>>,
      <<<<IdTok("TC", "1"), UrlTok("http://u/3")>>>> }

\* Where the nodes lie: elements are numbered in document order, each a
\* run of adjacent nodes; only a node of an element lies in a div.output.
Shapes(n) ==
    { s \in [1..n -> (0..n) \X BOOLEAN] :
        \A p \in 1..n :
            /\ s[p][2] => s[p][1] > 0
            /\ s[p][1] > 0 =>
                 \/ p > 1 /\ s[p][1] = s[p - 1][1]
                 \/ s[p][1] = 1 + Max({0} \cup {s[q][1] : q \in 1..(p - 1)}) }

\* The report of shape s and texts t.
DocOf(n, s, t) == [p \in 1..n |-> [blk |-> s[p][1], out |-> s[p][2], txt |-> t[p]]]

\* The short reports: the div.output nodes explored are those that hold a URL.
SmallDoc(d) ==
    \E n \in 0..MaxNodes : \E s \in Shapes(n) : \E t \in [1..n -> NodeTexts] :
        /\ \A p \in 1..n : s[p][2] => CUCUMBER_URL_PATTERN(Concat(t[p])) # <<>>
        /\ d = DocOf(n, s, t)

\* Long reports with two nodes of interest among filler lines: a failure
\* line and an identifier line, in either order, b filler lines apart.
Filler == [blk |-> 0, out |-> FALSE, txt |-> <<<<Word>>>>]

Pad(n) == [p \in 1..n |-> Filler]

SignalNodes ==
    { [blk |-> 0, out |-> FALSE, txt |-> <<<<SigA("404", "200", "http://x/y")>>>>],
      [blk |-> 0, out |-> FALSE, txt |-> <<<<SigB("200", "500")>>>>] }

IdNodes ==
    { [blk |-> 0, out |-> FALSE, txt |-> <<<<IdTok("TC", "1")>>>>],
      [blk |-> 1, out |-> TRUE,
       txt |-> <<<<FeatTok("AB", "2"), UrlTok("http://u/3")>>>>] }

SparseDoc(d) ==
    \E a \in 0..1, b \in 0..MaxPad, c \in 0..1 :
        \E x \in SignalNodes \cup IdNodes, y \in SignalNodes \cup IdNodes :
            d = Pad(a) \o <<x>> \o Pad(b) \o <<y>> \o Pad(c)

(***************************************************************************)
(* parse_single_file, step by step                                         *)
(***************************************************************************)
NoResult == [total_unique |-> 0, status_summary |-> EmptyDict, failures |-> <<>>]

Init ==
    /\ SmallDoc(doc) \/ SparseDoc(doc)
    /\ pc = "index"
    /\ i = 0
    /\ cucumber_urls = EmptyDict
    /\ results = <<>>
    /\ reported_testcases = {}
    /\ unique_failures = <<>>
    /\ failures_without_testcase = <<>>
    /\ ret = NoResult

\* STEP 1, one element
IndexElement ==
    /\ pc = "index"
    /\ i < NumElements(doc)
    /\ cucumber_urls' = StoreUrl(cucumber_urls,
                                 CaseId(ElementText(doc, i + 1)),
                                 ElementUrl(OutputTexts(doc, i + 1)))
    /\ i' = i + 1
    /\ UNCHANGED <<doc, pc, results, reported_testcases, unique_failures,
                   failures_without_testcase, ret>>

\* STEP 1 is over: all_text is split into lines
IndexDone ==
    /\ pc = "index"
    /\ i = NumElements(doc)
    /\ pc' = "scan"
    /\ i' = 0
    /\ UNCHANGED <<doc, cucumber_urls, results, reported_testcases,
                   unique_failures, failures_without_testcase, ret>>

\* STEP 2, one line
ScanLine ==
    /\ pc = "scan"
    /\ i < Len(AllLines(doc))
    /\ LET lines == AllLines(doc)
           sig == Signal(lines[i + 1])
       IN results' = IF sig = <<>> THEN results
                     ELSE Append(results, ScanRecord(lines, i, sig[1], cucumber_urls))
    /\ i' = i + 1
    /\ UNCHANGED <<doc, pc, cucumber_urls, reported_testcases, unique_failures,
                   failures_without_testcase, ret>>

\* STEP 2 is over: reported_testcases is computed
ScanDone ==
    /\ pc = "scan"
    /\ i = Len(AllLines(doc))
    /\ reported_testcases' = ReportedTestcases(results)
    /\ pc' = "orphan"
    /\ i' = 0
    /\ UNCHANGED <<doc, cucumber_urls, results, unique_failures,
                   failures_without_testcase, ret>>

\* STEP 3, one element
OrphanElement ==
    /\ pc = "orphan"
    /\ i < NumElements(doc)
    /\ LET case_id == CaseId(ElementText(doc, i + 1))
       IN IF case_id # None /\ case_id \notin reported_testcases
          THEN /\ results' = Append(results,
                                    OrphanRecord(doc, i + 1, case_id, cucumber_urls))
               /\ reported_testcases' = reported_testcases \cup {case_id}
          ELSE UNCHANGED <<results, reported_testcases>>
    /\ i' = i + 1
    /\ UNCHANGED <<doc, pc, cucumber_urls, unique_failures,
                   failures_without_testcase, ret>>

\* STEP 4, the loop over results
Deduplicate ==
    /\ pc = "orphan"
    /\ i = NumElements(doc)
    /\ LET step == DedupLoop(results, <<>>, <<>>)
       IN /\ unique_failures' = step[1]
          /\ failures_without_testcase' = step[2]
    /\ pc' = "return"
    /\ UNCHANGED <<doc, i, cucumber_urls, results, reported_testcases, ret>>

\* unique_results, the counts and the return
Return ==
    /\ pc = "return"
    /\ ret' = Result(UniqueResults(unique_failures, failures_without_testcase))
    /\ pc' = "done"
    /\ UNCHANGED <<doc, i, cucumber_urls, results, reported_testcases,
                   unique_failures, failures_without_testcase>>

Next ==
    \/ IndexElement
    \/ IndexDone
    \/ ScanLine
    \/ ScanDone
    \/ OrphanElement
    \/ Deduplicate
    \/ Return

Spec == Init /\ [][Next]_vars


(***************************************************************************)
(* Properties                                                              *)
(***************************************************************************)
Lines == AllLines(doc)

Failures == ret.failures

NoStatus == "no status code"

\* positions of a sequence
Pos(rs) == 1..Len(rs)

\* the k-th smallest member of a set of integers
Kth(S, k) == CHOOSE n \in S : Cardinality({m \in S : m <= n}) = k

\* the records of rs at the positions of S, in order
Pick(rs, S) == [k \in 1..Cardinality(S) |-> rs[Kth(S, k)]]

\* the identifier and the URL the Block Indexer extracts from element e
BlockId(e) == CaseId(ElementText(doc, e))

BlockUrl(e) == ElementUrl(OutputTexts(doc, e))

BlockIdentifiers == {BlockId(e) : e \in 1..NumElements(doc)} \ {None}

\* the elements that yield identifier X and a URL
Yielding(X) == {e \in 1..NumElements(doc) : BlockId(e) = X /\ BlockUrl(e) # None}

\* the testcases bound by Failure Scanner records
ScannerBound ==
    {results[n].testcase : n \in {m \in Pos(results) : results[m].status_info # NoStatus}}

\* C1 (as claimed): every Failure Scanner record with an empty testcase is
\* retained in the final failures: the output holds as many records with
\* testcase "" as the working records do.
C1_EmptyTestcaseRetained ==
    pc = "done" =>
        Cardinality({n \in Pos(Failures) : Failures[n].testcase = ""})
          = Cardinality({n \in Pos(results) : results[n].testcase = ""})

\* C2 (as claimed): when several elements yield the same identifier and a
\* URL each, the index keeps the URL of the first of them.
C2_FirstUrlKept ==
    pc = "done" =>
        \A X \in BlockIdentifiers :
            Yielding(X) # {} =>
                /\ X \in DOMAIN cucumber_urls
                /\ cucumber_urls[X] = BlockUrl(Min(Yielding(X)))

\* C2 (amended): when several elements yield the same identifier and a URL
\* each, the index keeps the URL of the last of them: a later element's URL
\* replaces the stored one.
C2_LastUrlKept ==
    pc = "done" =>
        \A X \in BlockIdentifiers :
            Yielding(X) # {} =>
                /\ X \in DOMAIN cucumber_urls
                /\ cucumber_urls[X] = BlockUrl(Max(Yielding(X)))

C2_Witness ==
    /\ pc = "done"
    /\ \E X \in BlockIdentifiers : \E e1, e2 \in Yielding(X) :
          e1 < e2 /\ BlockUrl(e1) # BlockUrl(e2)

\* C3: URL precedence: every record, working or final, whose testcase is a
\* key of the index has the indexed URL as its url.
C3_UrlPrecedence ==
    /\ \A n \in Pos(Failures) :
          Failures[n].testcase \in DOMAIN cucumber_urls
            => Failures[n].url = cucumber_urls[Failures[n].testcase]
    /\ \A n \in Pos(results) :
          results[n].testcase \in DOMAIN cucumber_urls
            => results[n].url = cucumber_urls[results[n].testcase]

C3_Witness ==
    /\ pc = "done"
    /\ \E n \in Pos(Failures) : \E j \in 0..(Len(Lines) - 1) :
          /\ Failures[n].status_info # NoStatus
          /\ Failures[n].testcase \in DOMAIN cucumber_urls
          /\ FAILURE_LINE_PATTERN(Lines[j + 1]) # <<>>
          /\ NearestTestcase(Lines, j) = Failures[n].testcase
          /\ Signal(Lines[j + 1])[1].url # Failures[n].url
    /\ \E n \in Pos(Failures) :
          /\ Failures[n].status_info = NoStatus
          /\ Failures[n].testcase \in DOMAIN cucumber_urls

\* C4: key uniqueness: no two records of the final failures with non-empty
\* testcases share their (testcase, status_info) pair.
C4_KeyUniqueness ==
    \A a, b \in Pos(Failures) :
        (a # b /\ Failures[a].testcase # "" /\ Failures[b].testcase # "")
          => <<Failures[a].testcase, Failures[a].status_info>>
               # <<Failures[b].testcase, Failures[b].status_info>>

C4_Witness ==
    /\ pc = "done"
    /\ Len(Failures) >= 2
    /\ \E a, b \in Pos(results) :
          /\ a < b
          /\ results[a].testcase # ""
          /\ results[a].testcase = results[b].testcase
          /\ results[a].status_info = results[b].status_info

\* C5: first occurrence wins: the final failures are the working records
\* with a non-empty testcase that no earlier working record equals in
\* testcase and status_info, each unchanged, in append order.
C5_FirstOccurrenceWins ==
    pc = "done" =>
        Failures =
          Pick(results,
               {n \in Pos(results) :
                  /\ results[n].testcase # ""
                  /\ \A m \in 1..(n - 1) :
                        ~ /\ results[m].testcase = results[n].testcase
                          /\ results[m].status_info = results[n].status_info})

C5_Witness ==
    /\ pc = "done"
    /\ \E a, b \in Pos(results) :
          /\ a < b
          /\ results[a].testcase # ""
          /\ results[a].testcase = results[b].testcase
          /\ results[a].status_info = results[b].status_info
          /\ results[a].url # results[b].url
          /\ results[a].error_analysis # results[b].error_analysis

\* the identifiers the identifier patterns match on a line
MatchedIds(line) ==
    {IdGroup(m) : m \in {FEATURE_LINE_PATTERN(line), TEST_CASE_PATTERN(line),
                         ADDITIONAL_PATTERN(line)} \ {<<>>}}

\* the lines j with max(0, n - 5) <= j < min(len, n + 15)
InWindow(n, len) == {j \in 0..(len - 1) : n - 5 <= j /\ j < n + 15}

\* C6: window bound: during and after the scan, the k-th working record of
\* the Failure Scanner belongs to the k-th failure-signal line n scanned; its
\* testcase is an identifier matched on a line j with
\* max(0, n - 5) <= j < min(len, n + 15), or "" when no such line matches an
\* identifier pattern.
C6_WindowBound ==
    pc # "index" =>
        LET lines == Lines
            ids == [j \in 0..(Len(lines) - 1) |-> MatchedIds(lines[j + 1])]
            sigs == {n \in 0..(Len(lines) - 1) : Signal(lines[n + 1]) # <<>>}
            scanned == IF pc = "scan" THEN {n \in sigs : n < i} ELSE sigs
        IN /\ Cardinality(scanned) <= Len(results)
           /\ \A n \in scanned :
                LET k == Cardinality({m \in scanned : m <= n})
                    found == UNION {ids[j] : j \in InWindow(n, Len(lines))}
                IN IF found = {} THEN results[k].testcase = ""
                   ELSE results[k].testcase \in found

C6_Witness ==
    /\ pc = "done"
    /\ LET lines == Lines
       IN /\ \E n \in 0..(Len(lines) - 17) :
                /\ Signal(lines[n + 1]) # <<>>
                /\ MatchedIds(lines[n + 16]) # {}
                /\ \A j \in InWindow(n, Len(lines)) : MatchedIds(lines[j + 1]) = {}
          /\ results[1].testcase = ""

\* C7: orphan reconciliation: an identifier extracted from some element and
\* bound by no Failure Scanner record has exactly one record in the final
\* failures; that record has status_info "no status code" and the indexed
\* URL, or "URL Not Found" when the identifier is not in the index.
C7_OrphanReconciliation ==
    pc = "done" =>
        \A X \in BlockIdentifiers \ ScannerBound :
            /\ Cardinality({n \in Pos(Failures) : Failures[n].testcase = X}) = 1
            /\ \A n \in Pos(Failures) :
                  Failures[n].testcase = X =>
                      /\ Failures[n].status_info = NoStatus
                      /\ Failures[n].url = IF X \in DOMAIN cucumber_urls
                                           THEN cucumber_urls[X]
                                           ELSE "URL Not Found"

C7_Witness ==
    /\ pc = "done"
    /\ \E X \in BlockIdentifiers \ ScannerBound :
          /\ X \in DOMAIN cucumber_urls
          /\ Cardinality({e \in 1..NumElements(doc) : BlockId(e) = X}) >= 2
    /\ \E X \in BlockIdentifiers \ ScannerBound : X \notin DOMAIN cucumber_urls

\* the sum of the values of a dict of counts
RECURSIVE SumCounts(_)
SumCounts(dct) ==
    IF DOMAIN dct = {} THEN 0
    ELSE LET key == CHOOSE x \in DOMAIN dct : TRUE
         IN dct[key] + SumCounts([x \in (DOMAIN dct) \ {key} |-> dct[x]])

\* C8: aggregation: total_unique is the number of final records,
\* status_summary counts the final records of each status_info and has no
\* other key, the counts sum to total_unique, and the empty report gives
\* total_unique 0, an empty status_summary and no failures.
C8_Aggregation ==
    pc = "done" =>
        /\ ret.total_unique = Len(Failures)
        /\ DOMAIN ret.status_summary = {Failures[n].status_info : n \in Pos(Failures)}
        /\ \A s \in DOMAIN ret.status_summary :
              ret.status_summary[s]
                = Cardinality({n \in Pos(Failures) : Failures[n].status_info = s})
        /\ SumCounts(ret.status_summary) = ret.total_unique
        /\ doc = <<>> =>
              /\ ret.total_unique = 0
              /\ DOMAIN ret.status_summary = {}
              /\ Failures = <<>>

C8_Witness ==
    /\ pc = "done"
    /\ \E s \in DOMAIN ret.status_summary : ret.status_summary[s] >= 2

\* C9: dedup idempotence: the Deduplicator applied to the final failures
\* gives the final failures back, in content and order.
C9_DedupIdempotent ==
    pc = "done" => Deduplicator(Failures) = Failures

C9_Witness ==
    /\ pc = "done"
    /\ Len(Failures) >= 2
    /\ Len(results) > Len(Failures)

\* C10: orphan exclusivity: an identifier with a "no status code" record has
\* no record of another status_info, among the working records and in the
\* final failures, and every "no status code" working record follows every
\* Failure Scanner record.
C10_OrphanExclusivity ==
    /\ \A a, b \in Pos(Failures) :
          (Failures[a].status_info = NoStatus
             /\ Failures[b].testcase = Failures[a].testcase)
            => Failures[b].status_info = NoStatus
    /\ \A a, b \in Pos(results) :
          (results[a].status_info = NoStatus
             /\ results[b].testcase = results[a].testcase)
            => results[b].status_info = NoStatus
    /\ \A a, b \in Pos(results) :
          (results[a].status_info = NoStatus /\ results[b].status_info # NoStatus)
            => b < a

C10_Witness ==
    /\ pc = "done"
    /\ \E a, b \in Pos(Failures) :
          /\ Failures[a].status_info = NoStatus
          /\ Failures[b].status_info # NoStatus
          /\ Failures[b].testcase \in BlockIdentifiers

====
